---- MODULE Spec2Model ----
(***************************************************************************)
(* Day 8, "Shortest Distance Clustering": the UnionFind class, the two     *)
(* solvers built on it and main (src/day8/solution.py); the dial of day 1  *)
(* (src/day1/solution.py); the breadth-first search of day 10              *)
(* (src/day10/solution.py).  The programs are independent: a specification *)
(* runs one of them and the variables of the others stay idle.             *)
(*                                                                         *)
(* Python lists indexed from 0 are functions on 0..n-1.  A UnionFind       *)
(* object is the three variables parent, rank, component_count; the        *)
(* methods are operators on the record of the three fields, returning the  *)
(* fields after the call together with the returned value.                 *)
(***************************************************************************)
EXTENDS Integers, Sequences, FiniteSets, TLC

\* Largest size of a UnionFind driven through its methods directly.
MaxSize == 4

\* Most points handed to solve_part1, the largest n_connections, and most
\* points handed to solve_part2.
MaxPoints1 == 5
MaxConn == 3
MaxPoints2 == 4

\* A caller that does not keep to the contract constructs UnionFind with
\* sizes down to -MaxNegative.
MaxNegative == 2

\* The points an input is drawn from: an isosceles triangle, so that two
\* pairs of distinct points are at the same distance and all of x, y and z
\* enter a distance.  Inputs may repeat a point.
Coords == {<<0, 0, 0>>, <<1, 1, 1>>, <<2, 0, 0>>}

VARIABLES
    parent,            \* UnionFind.parent
    rank,              \* UnionFind.rank
    component_count,   \* UnionFind.component_count
    call,              \* the method call that produced this state: its name,
                       \* arguments and result; for a union also its locals
                       \* root_x and root_y, the branch it took, and whether
                       \* the call before it was a union of the same arguments
    merges,            \* how many union calls have returned True so far
    fn,                \* the function running: "UnionFind" (a caller of the
                       \* class), "main", "solve_part1" or "solve_part2"
    coordinates,       \* the solvers' argument coordinates
    n_connections,     \* solve_part1's argument n_connections
    sorted_distances,  \* main's variable sorted_distances: the pair list as
                       \* generated, then (after the sort) as handed to the
                       \* solvers
    pairs_left,        \* the elements of the list the loop has not reached yet
    pair,              \* the element of sorted_distances the loop took last
    i,                 \* how many elements the loop has taken
    pc,                \* main: "parse", "distances", "sort", "call"; a solver:
                       \* "loop", "returned", or the exception raised
    result,            \* the value returned, once pc = "returned"
    input_lines,       \* day 8 main: the lines of the input file, each a
                       \* sequence of characters
    debug,             \* the debug flag (--debug; a solver's parameter debug)
    part1_result,      \* main's part1_result
    part2_result,      \* main's part2_result
    stdout,            \* what has been printed: <<"Part 1", value>> and
                       \* <<"Part 2", value>> for the result lines,
                       \* <<"debug", n>> for the debug print at source line n
    position,          \* day 1 process_instructions: position
    stops_on_zero,     \* stops_on_zero
    passes_through_zero, \* passes_through_zero
    instruction,       \* the instruction read, "L" or "R"; "" between lines
    amount,            \* its amount
    times_hit_zero,    \* times_hit_zero of the rotation made last
    target,            \* day 10 min_flips_bfs: target
    operations,        \* operations
    queue,             \* queue, a sequence of <<state, num_ops>>
    visited            \* visited

ufVars == <<parent, rank, component_count, call, merges>>
solverVars == <<fn, coordinates, n_connections, sorted_distances, pairs_left,
                pair, i, pc, result>>
mainIO == <<input_lines, debug, part1_result, part2_result, stdout>>
dialVars == <<position, stops_on_zero, passes_through_zero, instruction,
              amount, times_hit_zero>>
bfsVars == <<target, operations, queue, visited>>
vars == <<parent, rank, component_count, call, merges,
          fn, coordinates, n_connections, sorted_distances, pairs_left,
          pair, i, pc, result,
          input_lines, debug, part1_result, part2_result, stdout,
          position, stops_on_zero, passes_through_zero, instruction,
          amount, times_hit_zero,
          target, operations, queue, visited>>

\* The variables of main's input and output, of day 1 and of day 10 while
\* none of them is running: no file, debug off (the default of the solvers'
\* parameter), nothing printed.
IdleMainIO ==
    /\ input_lines = <<>>
    /\ debug = FALSE
    /\ part1_result = 0
    /\ part2_result = 0
    /\ stdout = <<>>

IdleDial ==
    /\ position = 0
    /\ stops_on_zero = 0
    /\ passes_through_zero = 0
    /\ instruction = ""
    /\ amount = 0
    /\ times_hit_zero = 0

IdleBfs ==
    /\ target = 0
    /\ operations = <<>>
    /\ queue = <<>>
    /\ visited = {}

\* The union-find calls and the solvers' steps leave these alone.
elsewhere == <<mainIO, dialVars, bfsVars>>

(***************************************************************************)
(* class UnionFind                                                         *)
(***************************************************************************)

\* __init__ with parent = [0] * size in place of list(range(size)).
UnionFind_parent_zero(size) ==
    [parent          |-> [k \in 0..(size - 1) |-> 0],
     rank            |-> [k \in 0..(size - 1) |-> 0],
     component_count |-> size]

\* __init__: parent = list(range(size)), rank = [0] * size,
\* component_count = size.
UnionFind(size) ==
    [parent          |-> [k \in 0..(size - 1) |-> k],
     rank            |-> [k \in 0..(size - 1) |-> 0],
     component_count |-> size]

\* The object held in the variables.
self == [parent |-> parent, rank |-> rank, component_count |-> component_count]

\* len(self.parent)
Len0(f) == Cardinality(DOMAIN f)

\* A find whose compression assigns the wrong way round: the root is
\* re-pointed at x instead of x at the root.
RECURSIVE find_reversed(_, _)
find_reversed(p, x) ==
    IF p[x] # x
    THEN LET up == find_reversed(p, p[x])
             q  == [up.parent EXCEPT ![up.root] = x]
         IN  [parent |-> q, root |-> q[x]]
    ELSE [parent |-> p, root |-> p[x]]

\* A find without the assignment of line 54: the root is looked up and the
\* parent list is left as it was.
RECURSIVE find_uncompressed(_, _)
find_uncompressed(p, x) ==
    IF p[x] # x
    THEN [parent |-> p, root |-> find_uncompressed(p, p[x]).root]
    ELSE [parent |-> p, root |-> p[x]]

\* A find that compresses by cutting x loose: x is made its own parent and
\* the root found is returned.
RECURSIVE find_detaches(_, _)
find_detaches(p, x) ==
    IF p[x] # x
    THEN LET up == find_detaches(p, p[x])
         IN  [parent |-> [p EXCEPT ![x] = x], root |-> up.root]
    ELSE [parent |-> p, root |-> p[x]]

\* find(x): the recursive call compresses the path above x first, then x is
\* re-pointed at the value that call returned; the value returned is parent[x].
RECURSIVE find(_, _)
find(p, x) ==
    IF p[x] # x
    THEN LET up == find(p, p[x])
             q  == [up.parent EXCEPT ![x] = up.root]
         IN  [parent |-> q, root |-> q[x]]
    ELSE [parent |-> p, root |-> p[x]]

\* find(x) for any integer x.  The code makes no range check, so x is
\* whatever self.parent[x] takes: a Python list raises IndexError for
\* x >= len or x < -len and reads and writes element len + x for
\* -len <= x < 0.  The recursive call is made on self.parent[x], a valid
\* index.
find_unchecked(p, x) ==
    IF x >= Len0(p) \/ x < -Len0(p)
    THEN [parent |-> p, raises |-> "IndexError", root |-> x]
    ELSE LET k == IF x < 0 THEN Len0(p) + x ELSE x
         IN  IF p[k] # x
             THEN LET up == find(p, p[k])
                      q  == [up.parent EXCEPT ![k] = up.root]
                  IN  [parent |-> q, raises |-> "none", root |-> q[k]]
             ELSE [parent |-> p, raises |-> "none", root |-> p[k]]

\* union_by_rank with the equal-rank case raising the rank and forgetting
\* the attachment.
union_by_rank_unlinked(p, rk, root_x, root_y) ==
    IF rk[root_x] < rk[root_y]
    THEN [parent |-> [p EXCEPT ![root_x] = root_y], rank |-> rk, branch |-> "less"]
    ELSE IF rk[root_x] > rk[root_y]
    THEN [parent |-> [p EXCEPT ![root_y] = root_x], rank |-> rk, branch |-> "greater"]
    ELSE [parent |-> p,
          rank   |-> [rk EXCEPT ![root_x] = @ + 1],
          branch |-> "equal"]

\* union_by_rank with the equal-rank case raising the rank of the root
\* that was attached instead of the root that was kept.
union_by_rank_wrong_rank(p, rk, root_x, root_y) ==
    IF rk[root_x] < rk[root_y]
    THEN [parent |-> [p EXCEPT ![root_x] = root_y], rank |-> rk, branch |-> "less"]
    ELSE IF rk[root_x] > rk[root_y]
    THEN [parent |-> [p EXCEPT ![root_y] = root_x], rank |-> rk, branch |-> "greater"]
    ELSE [parent |-> [p EXCEPT ![root_y] = root_x],
          rank   |-> [rk EXCEPT ![root_y] = @ + 1],
          branch |-> "equal"]

\* union_by_rank with the equal-rank case keeping the root of y's tree.
union_by_rank_keeps_y(p, rk, root_x, root_y) ==
    IF rk[root_x] < rk[root_y]
    THEN [parent |-> [p EXCEPT ![root_x] = root_y], rank |-> rk, branch |-> "less"]
    ELSE IF rk[root_x] > rk[root_y]
    THEN [parent |-> [p EXCEPT ![root_y] = root_x], rank |-> rk, branch |-> "greater"]
    ELSE [parent |-> [p EXCEPT ![root_x] = root_y],
          rank   |-> [rk EXCEPT ![root_y] = @ + 1],
          branch |-> "equal"]

\* union_by_rank with the comparisons the wrong way round: the root of
\* larger rank is attached under the root of smaller rank.
union_by_rank_inverted(p, rk, root_x, root_y) ==
    IF rk[root_x] > rk[root_y]
    THEN [parent |-> [p EXCEPT ![root_x] = root_y], rank |-> rk, branch |-> "less"]
    ELSE IF rk[root_x] < rk[root_y]
    THEN [parent |-> [p EXCEPT ![root_y] = root_x], rank |-> rk, branch |-> "greater"]
    ELSE [parent |-> [p EXCEPT ![root_y] = root_x],
          rank   |-> [rk EXCEPT ![root_x] = @ + 1],
          branch |-> "equal"]

\* Lines 74-81 of union, "attach smaller tree to larger tree": the three
\* rank cases, on the parent list p left by the two finds.
union_by_rank(p, rk, root_x, root_y) ==
    IF rk[root_x] < rk[root_y]
    THEN [parent |-> [p EXCEPT ![root_x] = root_y], rank |-> rk, branch |-> "less"]
    ELSE IF rk[root_x] > rk[root_y]
    THEN [parent |-> [p EXCEPT ![root_y] = root_x], rank |-> rk, branch |-> "greater"]
    ELSE [parent |-> [p EXCEPT ![root_y] = root_x],
          rank   |-> [rk EXCEPT ![root_x] = @ + 1],
          branch |-> "equal"]

\* union with the decrement placed before the early return, so that a call
\* that merges nothing lowers component_count too.
union_early_decrement(u, x, y) ==
    LET fx     == find(u.parent, x)
        fy     == find(fx.parent, y)
        root_x == fx.root
        root_y == fy.root
        p      == fy.parent
        link   == union_by_rank(p, u.rank, root_x, root_y)
    IN  IF root_x = root_y
        THEN [uf     |-> [u EXCEPT !.parent = p,
                                   !.component_count = @ - 1],
              ret    |-> FALSE,
              root_x |-> root_x, root_y |-> root_y, branch |-> "same"]
        ELSE [uf     |-> [parent          |-> link.parent,
                          rank            |-> link.rank,
                          component_count |-> u.component_count - 1],
              ret    |-> TRUE,
              root_x |-> root_x, root_y |-> root_y, branch |-> link.branch]

\* union with the early return handing back the parent list it was called
\* on, as if the two finds had compressed nothing.
union_false_restores(u, x, y) ==
    LET fx     == find(u.parent, x)
        fy     == find(fx.parent, y)
        root_x == fx.root
        root_y == fy.root
        p      == fy.parent
        link   == union_by_rank(p, u.rank, root_x, root_y)
    IN  IF root_x = root_y
        THEN [uf     |-> u,
              ret    |-> FALSE,
              root_x |-> root_x, root_y |-> root_y, branch |-> "same"]
        ELSE [uf     |-> [parent          |-> link.parent,
                          rank            |-> link.rank,
                          component_count |-> u.component_count - 1],
              ret    |-> TRUE,
              root_x |-> root_x, root_y |-> root_y, branch |-> link.branch]

\* union(x, y): two finds (each compressing), the early return when the
\* roots agree, the rank cases, and the decrement of component_count.
\* Beside the object and the returned value, the locals root_x and root_y
\* and the branch taken are reported.
union(u, x, y) ==
    LET fx     == find(u.parent, x)
        fy     == find(fx.parent, y)
        root_x == fx.root
        root_y == fy.root
        p      == fy.parent
        link   == union_by_rank(p, u.rank, root_x, root_y)
    IN  IF root_x = root_y
        THEN [uf     |-> [u EXCEPT !.parent = p],
              ret    |-> FALSE,
              root_x |-> root_x, root_y |-> root_y, branch |-> "same"]
        ELSE [uf     |-> [parent          |-> link.parent,
                          rank            |-> link.rank,
                          component_count |-> u.component_count - 1],
              ret    |-> TRUE,
              root_x |-> root_x, root_y |-> root_y, branch |-> link.branch]

\* The tally with size_map[root] = size_map.get(root, 0) in place of
\* size_map.get(root, 0) + 1 for a root already present.
Tally_no_increment(items, root) ==
    IF \E k \in 1..Len(items) : items[k].root = root
    THEN items
    ELSE Append(items, [root |-> root, count |-> 1])

\* size_map after the loop body has run for i: size_map.get(root, 0) + 1.
\* The dict is kept as the sequence of its (root, count) items in insertion
\* order, which is the order of list(size_map.values()).
Tally(items, root) ==
    IF \E k \in 1..Len(items) : items[k].root = root
    THEN [k \in 1..Len(items) |->
            IF items[k].root = root
            THEN [root |-> root, count |-> items[k].count + 1]
            ELSE items[k]]
    ELSE Append(items, [root |-> root, count |-> 1])

\* The loop with size_map keyed by i in place of root: an entry per index.
RECURSIVE SizesLoop_by_index(_, _, _)
SizesLoop_by_index(p, items, k) ==
    IF k >= Len0(p)
    THEN [parent |-> p, items |-> items]
    ELSE LET f == find(p, k)
         IN  SizesLoop_by_index(f.parent, Tally(items, k), k + 1)

\* The loop of get_component_sizes over i in range(len(self.parent)), from
\* index k on: find(k) (compressing), then the tally.
RECURSIVE SizesLoop(_, _, _)
SizesLoop(p, items, k) ==
    IF k >= Len0(p)
    THEN [parent |-> p, items |-> items]
    ELSE LET f == find(p, k)
         IN  SizesLoop(f.parent, Tally(items, f.root), k + 1)

\* get_component_sizes(): list(size_map.values()).
get_component_sizes(u) ==
    LET done == SizesLoop(u.parent, <<>>, 0)
    IN  [uf  |-> [u EXCEPT !.parent = done.parent],
         ret |-> [k \in 1..Len(done.items) |-> done.items[k].count]]

(***************************************************************************)
(* The UnionFind driven by an arbitrary caller: any sequence of find,      *)
(* union and get_component_sizes calls on valid indices.                   *)
(***************************************************************************)

Store(u) ==
    /\ parent' = u.parent
    /\ rank' = u.rank
    /\ component_count' = u.component_count

Indices == DOMAIN parent

InitUF ==
    /\ \E size \in 0..MaxSize :
          /\ parent = UnionFind(size).parent
          /\ rank = UnionFind(size).rank
          /\ component_count = UnionFind(size).component_count
          /\ call = [name |-> "__init__", size |-> size]
    /\ merges = 0
    /\ fn = "UnionFind"
    /\ coordinates = <<>>
    /\ n_connections = 0
    /\ sorted_distances = <<>>
    /\ pairs_left = {}
    /\ pair = <<>>
    /\ i = 0
    /\ pc = "caller"
    /\ result = 0
    /\ IdleMainIO /\ IdleDial /\ IdleBfs

CallFind ==
    \E x \in Indices :
        LET f == find(parent, x)
        IN  /\ fn = "UnionFind"
            /\ parent' = f.parent
            /\ call' = [name |-> "find", x |-> x, ret |-> f.root]
            /\ UNCHANGED <<rank, component_count, merges>>
            /\ UNCHANGED <<solverVars, elsewhere>>

CallUnion ==
    \E x \in Indices, y \in Indices :
        LET r == union(self, x, y)
        IN  /\ fn = "UnionFind"
            /\ Store(r.uf)
            /\ UNCHANGED <<solverVars, elsewhere>>
            /\ call' = [name |-> "union", x |-> x, y |-> y, ret |-> r.ret,
                        root_x |-> r.root_x, root_y |-> r.root_y,
                        branch |-> r.branch,
                        repeated |-> (/\ call.name = "union"
                                      /\ call.x = x
                                      /\ call.y = y)]
            /\ merges' = IF r.ret THEN merges + 1 ELSE merges

CallSizes ==
    LET r == get_component_sizes(self)
    IN  /\ fn = "UnionFind"
        /\ Store(r.uf)
        /\ call' = [name |-> "get_component_sizes", ret |-> r.ret]
        /\ UNCHANGED merges
        /\ UNCHANGED <<solverVars, elsewhere>>

NextUF ==
    \/ CallFind
    \/ CallUnion
    \/ CallSizes

Spec == InitUF /\ [][NextUF]_vars

(***************************************************************************)
(* The UnionFind driven by a caller that does not keep to valid indices:   *)
(* find is also called on integers outside [0, size).                      *)
(***************************************************************************)

\* The integers next to the valid indices on both sides, down to one below
\* -size and up to one above size.
OutsideIndices ==
    {x \in (-(Len0(parent) + 1))..(Len0(parent) + 1) : x \notin Indices}

\* find(x) on an integer outside [0, size): the call raises, or returns.
CallFindOutside ==
    \E x \in OutsideIndices :
        LET f == find_unchecked(parent, x)
        IN  /\ fn = "UnionFind"
            /\ parent' = f.parent
            /\ call' = IF f.raises = "none"
                       THEN [name |-> "find", x |-> x, raises |-> "none",
                             ret |-> f.root]
                       ELSE [name |-> "find", x |-> x, raises |-> f.raises]
            /\ UNCHANGED <<rank, component_count, merges>>
            /\ UNCHANGED <<solverVars, elsewhere>>

NextMisuse ==
    \/ CallFind
    \/ CallUnion
    \/ CallSizes
    \/ CallFindOutside

\* The construction with any integer size, negative ones included.  Lines
\* 39-41 hold no check and no raise: list(range(size)) and [0] * size are
\* the empty list for size < 0, and component_count takes the value size.
InitMisuse ==
    /\ \E size \in (-MaxNegative)..MaxSize :
          /\ parent = UnionFind(size).parent
          /\ rank = UnionFind(size).rank
          /\ component_count = UnionFind(size).component_count
          /\ call = [name |-> "__init__", size |-> size, raises |-> "none"]
    /\ merges = 0
    /\ fn = "UnionFind"
    /\ coordinates = <<>>
    /\ n_connections = 0
    /\ sorted_distances = <<>>
    /\ pairs_left = {}
    /\ pair = <<>>
    /\ i = 0
    /\ pc = "caller"
    /\ result = 0
    /\ IdleMainIO /\ IdleDial /\ IdleBfs

SpecMisuse == InitMisuse /\ [][NextMisuse]_vars

(***************************************************************************)
(* Distances and the pair list                                             *)
(***************************************************************************)

\* len() of a list held as a function on 0..n-1.
\* A Coordinate is the tuple <<x, y, z>>; a DistancePair is the tuple
\* <<distance, index1, index2>>.

\* calculate_distance: dx*dx + dy*dy + dz*dz.  The distance is held as this
\* sum, the square of the value math.sqrt returns: sqrt is strictly
\* increasing, so two distances compare (and tie) exactly as their squares.
calculate_distance(coord1, coord2) ==
    LET dx == coord2[1] - coord1[1]
        dy == coord2[2] - coord1[2]
        dz == coord2[3] - coord1[3]
    IN  dx * dx + dy * dy + dz * dz

\* The nested loops with the inner one written range(i + 2, n): the pairs
\* of neighbouring indices are left out.
RECURSIVE DistancesLoop_gap(_, _, _, _)
DistancesLoop_gap(coords, a, b, distances) ==
    IF a >= Len0(coords) THEN distances
    ELSE IF b >= Len0(coords) THEN DistancesLoop_gap(coords, a + 1, a + 3, distances)
    ELSE DistancesLoop_gap(coords, a, b + 1,
            Append(distances, <<calculate_distance(coords[a], coords[b]), a, b>>))

\* The two nested loops of calculate_all_distances, from (a, b) on.
RECURSIVE DistancesLoop(_, _, _, _)
DistancesLoop(coords, a, b, distances) ==
    IF a >= Len0(coords) THEN distances
    ELSE IF b >= Len0(coords) THEN DistancesLoop(coords, a + 1, a + 2, distances)
    ELSE DistancesLoop(coords, a, b + 1,
            Append(distances, <<calculate_distance(coords[a], coords[b]), a, b>>))

\* calculate_all_distances with the inner loop written range(i + 2, n).
calculate_all_distances_gap(coords) == DistancesLoop_gap(coords, 0, 2, <<>>)

\* calculate_all_distances(coordinates)
calculate_all_distances(coords) == DistancesLoop(coords, 0, 1, <<>>)

\* e placed in the ascending list q in front of the elements of equal
\* distance: the sort this makes is ascending but not stable.
RECURSIVE InsertStable_before_equal(_, _)
InsertStable_before_equal(q, e) ==
    IF q = <<>> THEN <<e>>
    ELSE IF e[1] <= Head(q)[1] THEN <<e>> \o q
    ELSE <<Head(q)>> \o InsertStable_before_equal(Tail(q), e)

\* e placed in the ascending list q behind every element whose distance is
\* not larger.
RECURSIVE InsertStable(_, _)
InsertStable(q, e) ==
    IF q = <<>> THEN <<e>>
    ELSE IF e[1] < Head(q)[1] THEN <<e>> \o q
    ELSE <<Head(q)>> \o InsertStable(Tail(q), e)

\* sorted_distances.sort(key=lambda x: x[0]): ascending by distance, elements
\* of equal distance in their order in the list (list.sort is stable).
RECURSIVE sort_by_distance(_)
sort_by_distance(q) ==
    IF q = <<>> THEN <<>>
    ELSE InsertStable(sort_by_distance(SubSeq(q, 1, Len(q) - 1)), q[Len(q)])

(***************************************************************************)
(* solve_part1 and solve_part2                                             *)
(***************************************************************************)

\* e placed in the descending list q.
RECURSIVE InsertDescending(_, _)
InsertDescending(q, e) ==
    IF q = <<>> THEN <<e>>
    ELSE IF e > Head(q) THEN <<e>> \o q
    ELSE <<Head(q)>> \o InsertDescending(Tail(q), e)

\* sorted(sizes) with reverse=True forgotten: ascending.
RECURSIVE sorted_ascending(_)
sorted_ascending(q) ==
    IF q = <<>> THEN <<>>
    ELSE LET rest == sorted_ascending(Tail(q))
         IN  SelectSeq(rest, LAMBDA v : v < Head(q)) \o <<Head(q)>>
             \o SelectSeq(rest, LAMBDA v : v >= Head(q))

\* sorted(sizes, reverse=True)
RECURSIVE sorted_reverse(_)
sorted_reverse(q) ==
    IF q = <<>> THEN <<>>
    ELSE InsertDescending(sorted_reverse(Tail(q)), Head(q))

\* The body of solve_part1's loop for the element p of sorted_distances:
\* uf.union(idx1, idx2), the returned value dropped.
part1_body(u, p) == union(u, p[2], p[3])

\* solve_part1 ending in the product of the sizes there are, math.prod of
\* sizes[:3], so that it returns a value with fewer than three components.
part1_finish_short(u) ==
    LET got   == get_component_sizes(u)
        sizes == sorted_reverse(got.ret)
    IN  [uf |-> got.uf, sizes |-> sizes, pc |-> "returned",
         result |-> IF Len(sizes) = 0 THEN 1
                    ELSE IF Len(sizes) = 1 THEN sizes[1]
                    ELSE IF Len(sizes) = 2 THEN sizes[1] * sizes[2]
                    ELSE sizes[1] * sizes[2] * sizes[3]]

\* solve_part1 after its loop: the component sizes sorted descending and the
\* product of the first three; sizes[2] raises IndexError when fewer than
\* three components are left (sizes[0] and sizes[1] likewise).
part1_finish(u) ==
    LET got   == get_component_sizes(u)
        sizes == sorted_reverse(got.ret)
    IN  IF Len(sizes) < 3
        THEN [uf |-> got.uf, sizes |-> sizes, pc |-> "IndexError", result |-> 0]
        ELSE [uf |-> got.uf, sizes |-> sizes, pc |-> "returned",
              result |-> sizes[1] * sizes[2] * sizes[3]]

\* The loop body with the test reduced to "unified": it returns at the first
\* union that merges.
part2_body_any_merge(coords, u, p) ==
    LET r == union(u, p[2], p[3])
    IN  [union   |-> r,
         returns |-> r.ret,
         result  |-> coords[p[2]][1] * coords[p[3]][1]]

\* The body of solve_part2's loop for the element p of sorted_distances:
\* the union, the test "unified and uf.component_count == 1", and x1 * x2.
part2_body(coords, u, p) ==
    LET r == union(u, p[2], p[3])
    IN  [union   |-> r,
         returns |-> r.ret /\ r.uf.component_count = 1,
         result  |-> coords[p[2]][1] * coords[p[3]][1]]

\* solve_part1 on a given list, from the loop's index k on (k counts from 0,
\* the list from 1).  sorted_distances[k] raises IndexError past the end.
RECURSIVE Part1Loop(_, _, _, _)
Part1Loop(u, dists, n, k) ==
    IF k >= n THEN part1_finish(u)
    ELSE IF k >= Len(dists)
    THEN [uf |-> u, sizes |-> <<>>, pc |-> "IndexError", result |-> 0]
    ELSE Part1Loop(part1_body(u, dists[k + 1]).uf, dists, n, k + 1)

\* The debug prints of the source lines ns, as they stand in stdout.
DebugLines(ns) == [k \in 1..Len(ns) |-> <<"debug", ns[k]>>]

\* q[k] of a Python list raises no IndexError: k counts from the end when
\* negative, down to -len(q).
in_range(q, k) == -Len(q) <= k /\ k < Len(q)

\* solve_part1: with debug, the prints before the loop, of which line 199
\* reads sorted_distances[0] and line 200 sorted_distances[n_connections-1];
\* the loop; with debug, the prints after it, of which line 216 reads
\* sizes[0], sizes[1] and sizes[2]; the product.  out is what it prints.
solve_part1(coords, dists, n, dbg) ==
    LET raised == [sizes |-> <<>>, pc |-> "IndexError", result |-> 0]
        r      == Part1Loop(UnionFind(Len0(coords)), dists, n, 0)
        loop   == [sizes |-> r.sizes, pc |-> r.pc, result |-> r.result]
    IN  IF ~dbg THEN loop @@ [out |-> <<>>]
        ELSE IF ~in_range(dists, 0)
        THEN raised @@ [out |-> DebugLines(<<197, 198>>)]
        ELSE IF ~in_range(dists, n - 1)
        THEN raised @@ [out |-> DebugLines(<<197, 198, 199>>)]
        ELSE IF n > Len(dists)
        THEN loop @@ [out |-> DebugLines(<<197, 198, 199, 200>>)]
        ELSE IF Len(r.sizes) < 3
        THEN loop @@ [out |-> DebugLines(<<197, 198, 199, 200, 214, 215>>)]
        ELSE loop @@ [out |-> DebugLines(<<197, 198, 199, 200, 214, 215, 216>>)]

\* solve_part2 on a given list, from the loop's index k on; the ValueError
\* of the last line when the list runs out.
RECURSIVE Part2Loop(_, _, _, _)
Part2Loop(coords, u, dists, k) ==
    IF k >= Len(dists)
    THEN [pc |-> "ValueError", result |-> 0, pair |-> <<>>]
    ELSE LET b == part2_body(coords, u, dists[k + 1])
         IN  IF b.returns
             THEN [pc |-> "returned", result |-> b.result,
                   pair |-> dists[k + 1]]
             ELSE Part2Loop(coords, b.union.uf, dists, k + 1)

\* solve_part2: with debug, the two prints before the loop and the three
\* before the return; none of them reads anything that can fail.
solve_part2(coords, dists, dbg) ==
    LET r == Part2Loop(coords, UnionFind(Len0(coords)), dists, 0)
    IN  r @@ [out |-> IF ~dbg THEN <<>>
                      ELSE IF r.pc = "returned"
                      THEN DebugLines(<<239, 240, 256, 257, 258>>)
                      ELSE DebugLines(<<239, 240>>)]

(***************************************************************************)
(* main up to its call of a solver (the point list parsed, the pair list   *)
(* generated, the pair list sorted), then one call of solve_part1 or of    *)
(* solve_part2 on these, a loop iteration per step.  sorted_distances is   *)
(* the list as main builds it (calculate_all_distances, then the stable    *)
(* sort).  The list                                                        *)
(* the solver iterates over is that list with pairs of equal distance in   *)
(* any order: element i of such a list is any pair of least distance among *)
(* those behind the first i, so it is held as the set pairs_left of pairs  *)
(* the loop has not reached, and an iteration takes any pair of least      *)
(* distance from it.  Taking them in the order of sorted_distances is one  *)
(* of these runs.                                                          *)
(***************************************************************************)

Range(q) == {q[k] : k \in 1..Len(q)}

PointLists(most) == UNION {[0..(n - 1) -> Coords] : n \in 0..most}

\* The pairs that can stand next in an ascending list of the pairs in S.
Least(S) == {p \in S : \A q \in S : p[1] <= q[1]}

UnionCall(r, p) ==
    [name |-> "union", x |-> p[2], y |-> p[3], ret |-> r.ret,
     root_x |-> r.root_x, root_y |-> r.root_y, branch |-> r.branch,
     repeated |-> FALSE]

\* main before it has read its input.
InitSolve ==
    /\ fn = "main"
    /\ pc = "parse"
    /\ coordinates = <<>>
    /\ n_connections = 0
    /\ sorted_distances = <<>>
    /\ pairs_left = {}
    /\ pair = <<>>
    /\ i = 0
    /\ result = 0
    /\ parent = <<>>
    /\ rank = <<>>
    /\ component_count = 0
    /\ call = [name |-> "none"]
    /\ merges = 0
    /\ IdleMainIO /\ IdleDial /\ IdleBfs

mainVars == <<ufVars, n_connections, pairs_left, pair, i, result,
              input_lines, debug, part1_result, part2_result,
              dialVars, bfsVars>>

\* stdout after the debug prints of the source lines ns ("if debug:").
DebugPrinted(ns) == IF debug THEN stdout \o DebugLines(ns) ELSE stdout

\* coordinates = parse_coordinates(filename): a list of at most `most`
\* points.
ParseCoordinates(most) ==
    /\ fn = "main"
    /\ pc = "parse"
    /\ coordinates' \in PointLists(most)
    /\ pc' = "distances"
    /\ UNCHANGED <<mainVars, fn, sorted_distances, stdout>>

ParseInput == ParseCoordinates(MaxPoints1)

ParseSmallInput == ParseCoordinates(MaxPoints2)

\* sorted_distances = calculate_all_distances(coordinates), the debug print
\* before it.
CalculateAllDistances ==
    /\ fn = "main"
    /\ pc = "distances"
    /\ stdout' = DebugPrinted(<<291>>)
    /\ sorted_distances' = calculate_all_distances(coordinates)
    /\ pc' = "sort"
    /\ UNCHANGED <<mainVars, fn, coordinates>>

\* sorted_distances.sort(key=lambda x: x[0]), the debug prints before it.
SortDistances ==
    /\ fn = "main"
    /\ pc = "sort"
    /\ stdout' = DebugPrinted(<<296, 297>>)
    /\ sorted_distances' = sort_by_distance(sorted_distances)
    /\ pc' = "call"
    /\ UNCHANGED <<mainVars, fn, coordinates>>

\* One of the functions in fns is called on the point list, when it has at
\* most `most` points, and the sorted pair list: num_coords =
\* len(coordinates) and uf = UnionFind(num_coords).
Enter(fns, most) ==
    /\ fn = "main"
    /\ pc = "call"
    /\ Len0(coordinates) <= most
    /\ fn' \in fns
    /\ n_connections' \in (IF fn' = "solve_part1" THEN 0..MaxConn ELSE {0})
    /\ pairs_left' = Range(sorted_distances)
    /\ Store(UnionFind(Len0(coordinates)))
    /\ call' = [name |-> "__init__", size |-> Len0(coordinates)]
    /\ pc' = "loop"
    /\ UNCHANGED <<merges, pair, i, result, coordinates, sorted_distances,
                   elsewhere>>

EnterPart1 == Enter({"solve_part1"}, MaxPoints1)

EnterPart2 == Enter({"solve_part2"}, MaxPoints2)

\* for i in range(n_connections): one iteration, or the IndexError of
\* sorted_distances[i] when the list has run out.
Part1Iterate ==
    /\ fn = "solve_part1"
    /\ pc = "loop"
    /\ i < n_connections
    /\ IF pairs_left = {}
       THEN /\ pc' = "IndexError"
            /\ UNCHANGED <<ufVars, pairs_left, pair, i, result>>
       ELSE \E p \in Least(pairs_left) :
               \E r \in {part1_body(self, p)} :
                   /\ Store(r.uf)
                   /\ call' = UnionCall(r, p)
                   /\ merges' = IF r.ret THEN merges + 1 ELSE merges
                   /\ pair' = p
                   /\ pairs_left' = pairs_left \ {p}
                   /\ i' = i + 1
                   /\ UNCHANGED <<pc, result>>
    /\ UNCHANGED <<fn, coordinates, n_connections, sorted_distances, elsewhere>>

\* The loop is over: sizes, and the product or the IndexError.
Part1Finish ==
    /\ fn = "solve_part1"
    /\ pc = "loop"
    /\ i >= n_connections
    /\ LET f == part1_finish(self)
       IN  /\ Store(f.uf)
           /\ call' = [name |-> "get_component_sizes", ret |-> f.sizes]
           /\ pc' = f.pc
           /\ result' = f.result
    /\ UNCHANGED <<merges, fn, coordinates, n_connections, sorted_distances,
                   pairs_left, pair, i, elsewhere>>

\* for i, (dist, idx1, idx2) in enumerate(sorted_distances): one iteration.
Part2Iterate ==
    /\ fn = "solve_part2"
    /\ pc = "loop"
    /\ pairs_left # {}
    /\ \E p \in Least(pairs_left) :
          \E b \in {part2_body(coordinates, self, p)} :
              /\ Store(b.union.uf)
              /\ call' = UnionCall(b.union, p)
              /\ merges' = IF b.union.ret THEN merges + 1 ELSE merges
              /\ pair' = p
              /\ pairs_left' = pairs_left \ {p}
              /\ i' = i + 1
              /\ pc' = IF b.returns THEN "returned" ELSE "loop"
              /\ result' = IF b.returns THEN b.result ELSE result
    /\ UNCHANGED <<fn, coordinates, n_connections, sorted_distances, elsewhere>>

\* The end of solve_part2 written "return 0" in place of the raise.
Part2Exhausted_returns_default ==
    /\ fn = "solve_part2"
    /\ pc = "loop"
    /\ pairs_left = {}
    /\ pc' = "returned"
    /\ result' = 0
    /\ UNCHANGED <<ufVars, fn, coordinates, n_connections, sorted_distances,
                   pairs_left, pair, i, elsewhere>>

\* The list is exhausted: raise ValueError.
Part2Exhausted ==
    /\ fn = "solve_part2"
    /\ pc = "loop"
    /\ pairs_left = {}
    /\ pc' = "ValueError"
    /\ UNCHANGED <<ufVars, fn, coordinates, n_connections, sorted_distances,
                   pairs_left, pair, i, result, elsewhere>>

NextSolve ==
    \/ ParseInput
    \/ CalculateAllDistances
    \/ SortDistances
    \/ EnterPart1
    \/ EnterPart2
    \/ Part1Iterate
    \/ Part1Finish
    \/ Part2Iterate
    \/ Part2Exhausted

SpecSolve == InitSolve /\ [][NextSolve]_vars

\* solve_part2 alone, running to completion: once called, an iteration that
\* can be taken is taken, and so is the raise after the loop.
NextPart2 ==
    \/ ParseSmallInput
    \/ CalculateAllDistances
    \/ SortDistances
    \/ EnterPart2
    \/ Part2Iterate
    \/ Part2Exhausted

SpecPart2Fair ==
    /\ InitSolve
    /\ [][NextPart2]_vars
    /\ WF_vars(Part2Iterate)
    /\ WF_vars(Part2Exhausted)

(***************************************************************************)
(* main as a whole: the input file read by parse_coordinates, character by *)
(* character; the connection count of determine_part1_connections; the     *)
(* pair list; the two solvers, a call per step; the result lines.  A run   *)
(* that raises ends with pc the name of the exception.                     *)
(***************************************************************************)

MaxLines == 5
MaxLineLen == 6
MaxCoords == 1001

SeqsUpTo(S, n) == UNION {[1..k -> S] : k \in 0..n}

Digits == {"0", "1", "2", "3", "4", "5", "6", "7", "8", "9"}

DigitValue(c) ==
    CASE c = "0" -> 0 [] c = "1" -> 1 [] c = "2" -> 2 [] c = "3" -> 3
      [] c = "4" -> 4 [] c = "5" -> 5 [] c = "6" -> 6 [] c = "7" -> 7
      [] c = "8" -> 8 [] c = "9" -> 9

Whitespace == {" ", "\t", "\n", "\r"}

RECURSIVE lstrip(_)
lstrip(s) ==
    IF s # <<>> /\ Head(s) \in Whitespace THEN lstrip(Tail(s)) ELSE s

RECURSIVE rstrip(_)
rstrip(s) ==
    IF s # <<>> /\ s[Len(s)] \in Whitespace
    THEN rstrip(SubSeq(s, 1, Len(s) - 1))
    ELSE s

\* str.strip()
strip(s) == rstrip(lstrip(s))

\* s.split(','): the pieces between the commas, empty pieces kept.
RECURSIVE split(_)
split(s) ==
    IF \A k \in 1..Len(s) : s[k] # ","
    THEN <<s>>
    ELSE LET at == CHOOSE k \in 1..Len(s) :
                       s[k] = "," /\ \A j \in 1..(k - 1) : s[j] # ","
         IN  <<SubSeq(s, 1, at - 1)>> \o split(SubSeq(s, at + 1, Len(s)))

\* The value of a run of decimal digits.
RECURSIVE DecimalValue(_)
DecimalValue(s) ==
    IF s = <<>> THEN 0
    ELSE 10 * DecimalValue(SubSeq(s, 1, Len(s) - 1)) + DigitValue(s[Len(s)])

\* int(s) of a string: whitespace around it dropped, an optional sign, then
\* one or more digits; anything else raises ValueError.
int(s) ==
    LET t      == strip(s)
        signed == t # <<>> /\ Head(t) \in {"-", "+"}
        digits == IF signed THEN Tail(t) ELSE t
    IN  IF digits = <<>> \/ \E k \in 1..Len(digits) : digits[k] \notin Digits
        THEN [raises |-> "ValueError", value |-> 0]
        ELSE [raises |-> "none",
              value  |-> IF signed /\ Head(t) = "-"
                         THEN -DecimalValue(digits)
                         ELSE DecimalValue(digits)]

\* int(parts[k]), k counted from 0: IndexError when parts has no such element.
int_of_part(parts, k) ==
    IF k >= Len(parts) THEN [raises |-> "IndexError", value |-> 0]
    ELSE int(parts[k + 1])

\* The body of parse_coordinates' loop for one line: a blank line is skipped;
\* int(parts[0]), int(parts[1]), int(parts[2]) are evaluated in this order
\* and what is behind parts[2] is never looked at.
parse_line(line) ==
    LET s     == strip(line)
        parts == split(s)
        x     == int_of_part(parts, 0)
        y     == int_of_part(parts, 1)
        z     == int_of_part(parts, 2)
    IN  IF s = <<>> THEN [raises |-> "none", skipped |-> TRUE, point |-> <<>>]
        ELSE IF x.raises # "none"
        THEN [raises |-> x.raises, skipped |-> FALSE, point |-> <<>>]
        ELSE IF y.raises # "none"
        THEN [raises |-> y.raises, skipped |-> FALSE, point |-> <<>>]
        ELSE IF z.raises # "none"
        THEN [raises |-> z.raises, skipped |-> FALSE, point |-> <<>>]
        ELSE [raises |-> "none", skipped |-> FALSE,
              point |-> <<x.value, y.value, z.value>>]

\* coordinates.append(e) on a list indexed from 0.
Append0(f, e) ==
    [k \in 0..Len0(f) |-> IF k < Len0(f) THEN f[k] ELSE e]

\* parse_coordinates from line k on, coords the points appended so far.  An
\* exception leaves the function at once, the list lost.
RECURSIVE ParseLoop(_, _, _)
ParseLoop(lines, k, coords) ==
    IF k > Len(lines) THEN [raises |-> "none", coordinates |-> coords]
    ELSE LET r == parse_line(lines[k])
         IN  IF r.raises # "none"
             THEN [raises |-> r.raises, coordinates |-> <<>>]
             ELSE IF r.skipped THEN ParseLoop(lines, k + 1, coords)
             ELSE ParseLoop(lines, k + 1, Append0(coords, r.point))

parse_coordinates(lines) == ParseLoop(lines, 1, <<>>)

\* The count taken as the half rounded up.
determine_part1_connections_rounded_up(num_coords) ==
    IF num_coords = 20 THEN 10
    ELSE IF num_coords = 1000 THEN 1000
    ELSE (num_coords + 1) \div 2

\* The count of the test input for every input.
determine_part1_connections_of_test(num_coords) == 10

determine_part1_connections(num_coords) ==
    IF num_coords = 20 THEN 10
    ELSE IF num_coords = 1000 THEN 1000
    ELSE num_coords \div 2

\* The lines files are made of: three points and a line of two fields.
FileLines ==
    {<<"0", ",", "0", ",", "0">>, <<"1", ",", "1", ",", "1">>,
     <<"2", ",", "0", ",", "0">>, <<"1", ",", "1">>}

\* The characters one-line files are made of.
LineChars == {"1", ",", "-", " "}

\* Two clusters: three points on a line, a step apart, and two points a step
\* apart far from them.
ScenarioFile ==
    <<<<"0", ",", "0", ",", "0">>,
      <<"1", ",", "0", ",", "0">>,
      <<"2", ",", "0", ",", "0">>,
      <<"1", "0", ",", "1", "0", ",", "1", "0">>,
      <<"1", "1", ",", "1", "0", ",", "1", "0">>>>

\* The input files: up to MaxLines of FileLines; one line of up to MaxLineLen
\* of LineChars; the two clusters.
InputFiles ==
    SeqsUpTo(FileLines, MaxLines)
        \cup {<<line>> : line \in SeqsUpTo(LineChars, MaxLineLen)}
        \cup {ScenarioFile}

\* main with its arguments read: the file named, --debug given or not.
InitMain ==
    /\ fn = "main"
    /\ pc = "parse"
    /\ input_lines \in InputFiles
    /\ debug \in BOOLEAN
    /\ part1_result = 0
    /\ part2_result = 0
    /\ stdout = <<>>
    /\ coordinates = <<>>
    /\ n_connections = 0
    /\ sorted_distances = <<>>
    /\ pairs_left = {}
    /\ pair = <<>>
    /\ i = 0
    /\ result = 0
    /\ parent = <<>>
    /\ rank = <<>>
    /\ component_count = 0
    /\ call = [name |-> "none"]
    /\ merges = 0
    /\ IdleDial /\ IdleBfs

\* What main's own steps leave alone.
solverLocals == <<ufVars, pairs_left, pair, i, result, dialVars, bfsVars>>

\* coordinates = parse_coordinates(filename), n_connections =
\* determine_part1_connections(len(coordinates)) and the debug prints of
\* the two.
MainParse ==
    /\ fn = "main"
    /\ pc = "parse"
    /\ \E r \in {parse_coordinates(input_lines)} :
          IF r.raises = "none"
          THEN /\ coordinates' = r.coordinates
               /\ n_connections' =
                      determine_part1_connections(Len0(r.coordinates))
               /\ stdout' = DebugPrinted(<<285, 286, 287>>)
               /\ pc' = "distances"
          ELSE /\ pc' = r.raises
               /\ UNCHANGED <<coordinates, n_connections, stdout>>
    /\ UNCHANGED <<solverLocals, fn, sorted_distances, input_lines, debug,
                   part1_result, part2_result>>

\* The "Part 1" line printed as soon as solve_part1 has returned.
MainPart1_prints_at_once ==
    /\ fn = "main"
    /\ pc = "call"
    /\ \E r \in {solve_part1(coordinates, sorted_distances, n_connections,
                             debug)} :
          /\ stdout' = IF r.pc = "returned"
                       THEN stdout \o r.out \o <<<<"Part 1", r.result>>>>
                       ELSE stdout \o r.out
          /\ pc' = IF r.pc = "returned" THEN "part2" ELSE r.pc
          /\ part1_result' = IF r.pc = "returned" THEN r.result
                             ELSE part1_result
    /\ UNCHANGED <<solverLocals, fn, coordinates, n_connections,
                   sorted_distances, input_lines, debug, part2_result>>

\* part1_result = solve_part1(coordinates, sorted_distances, n_connections,
\* debug)
MainPart1 ==
    /\ fn = "main"
    /\ pc = "call"
    /\ \E r \in {solve_part1(coordinates, sorted_distances, n_connections,
                             debug)} :
          /\ stdout' = stdout \o r.out
          /\ pc' = IF r.pc = "returned" THEN "part2" ELSE r.pc
          /\ part1_result' = IF r.pc = "returned" THEN r.result
                             ELSE part1_result
    /\ UNCHANGED <<solverLocals, fn, coordinates, n_connections,
                   sorted_distances, input_lines, debug, part2_result>>

\* part2_result = solve_part2(coordinates, sorted_distances, debug)
MainPart2 ==
    /\ fn = "main"
    /\ pc = "part2"
    /\ \E r \in {solve_part2(coordinates, sorted_distances, debug)} :
          /\ stdout' = stdout \o r.out
          /\ pc' = IF r.pc = "returned" THEN "print" ELSE r.pc
          /\ part2_result' = IF r.pc = "returned" THEN r.result
                             ELSE part2_result
    /\ UNCHANGED <<solverLocals, fn, coordinates, n_connections,
                   sorted_distances, input_lines, debug, part1_result>>

\* The two result lines.
MainPrint ==
    /\ fn = "main"
    /\ pc = "print"
    /\ stdout' = stdout \o <<<<"Part 1", part1_result>>,
                             <<"Part 2", part2_result>>>>
    /\ pc' = "done"
    /\ UNCHANGED <<solverLocals, fn, coordinates, n_connections,
                   sorted_distances, input_lines, debug, part1_result,
                   part2_result>>

NextMain ==
    \/ MainParse
    \/ CalculateAllDistances
    \/ SortDistances
    \/ MainPart1
    \/ MainPart2
    \/ MainPrint

SpecMain == InitMain /\ [][NextMain]_vars

(***************************************************************************)
(* The solvers called directly, as any caller of the module can: a point   *)
(* list, a sorted list of pairs of its points (the shortest pairs, up to   *)
(* all), any connection count, debug given or not.  A call is one step.    *)
(***************************************************************************)

MaxPoints3 == 3

\* The lists of the first pairs of q, from none to all.
Prefixes(q) == {SubSeq(q, 1, k) : k \in 0..Len(q)}

InitDirect ==
    /\ fn = "caller"
    /\ pc = "call"
    /\ coordinates \in PointLists(MaxPoints3)
    /\ sorted_distances \in
           Prefixes(sort_by_distance(calculate_all_distances(coordinates)))
    /\ n_connections \in (-MaxConn)..MaxConn
    /\ debug \in BOOLEAN
    /\ input_lines = <<>>
    /\ part1_result = 0
    /\ part2_result = 0
    /\ stdout = <<>>
    /\ pairs_left = {}
    /\ pair = <<>>
    /\ i = 0
    /\ result = 0
    /\ parent = <<>>
    /\ rank = <<>>
    /\ component_count = 0
    /\ call = [name |-> "none"]
    /\ merges = 0
    /\ IdleDial /\ IdleBfs

\* solve_part1(coordinates, sorted_distances, n_connections, debug)
CallSolvePart1 ==
    /\ fn = "caller"
    /\ pc = "call"
    /\ \E r \in {solve_part1(coordinates, sorted_distances, n_connections,
                             debug)} :
          /\ fn' = "solve_part1"
          /\ pc' = r.pc
          /\ result' = r.result
          /\ stdout' = stdout \o r.out
    /\ UNCHANGED <<ufVars, coordinates, n_connections, sorted_distances,
                   pairs_left, pair, i, input_lines, debug, part1_result,
                   part2_result, dialVars, bfsVars>>

\* solve_part2(coordinates, sorted_distances, debug)
CallSolvePart2 ==
    /\ fn = "caller"
    /\ pc = "call"
    /\ \E r \in {solve_part2(coordinates, sorted_distances, debug)} :
          /\ fn' = "solve_part2"
          /\ pc' = r.pc
          /\ result' = r.result
          /\ stdout' = stdout \o r.out
    /\ UNCHANGED <<ufVars, coordinates, n_connections, sorted_distances,
                   pairs_left, pair, i, input_lines, debug, part1_result,
                   part2_result, dialVars, bfsVars>>

NextDirect ==
    \/ CallSolvePart1
    \/ CallSolvePart2

SpecDirect == InitDirect /\ [][NextDirect]_vars

(***************************************************************************)
(* Day 1: the dial.  process_instructions, a line read per step and the    *)
(* rotation it asks for per step; i counts the lines read.                 *)
(***************************************************************************)

DIAL_SIZE == 100
STARTING_POSITION == 50

MaxAmount == 120
MaxRotations == 2

\* count_zero_crossings without its case for a start at 0.
count_zero_crossings_from_anywhere(start_pos, amt, is_decrease) ==
    IF is_decrease
    THEN IF amt >= start_pos
         THEN 1 + (amt - start_pos) \div DIAL_SIZE
         ELSE 0
    ELSE LET distance_to_zero == DIAL_SIZE - start_pos
         IN  IF amt >= distance_to_zero
             THEN 1 + (amt - distance_to_zero) \div DIAL_SIZE
             ELSE 0

count_zero_crossings(start_pos, amt, is_decrease) ==
    IF start_pos = 0
    THEN IF amt >= DIAL_SIZE THEN amt \div DIAL_SIZE ELSE 0
    ELSE IF is_decrease
    THEN IF amt >= start_pos
         THEN 1 + (amt - start_pos) \div DIAL_SIZE
         ELSE 0
    ELSE LET distance_to_zero == DIAL_SIZE - start_pos
         IN  IF amt >= distance_to_zero
             THEN 1 + (amt - distance_to_zero) \div DIAL_SIZE
             ELSE 0

\* Python's % of a positive modulus is never negative, as is TLA+'s.
apply_rotation(pos, amt, is_decrease) ==
    IF is_decrease
    THEN (pos - amt) % DIAL_SIZE
    ELSE (pos + amt) % DIAL_SIZE

\* The variables of day 8 while day 8 is not running.
IdleDay8 ==
    /\ coordinates = <<>>
    /\ n_connections = 0
    /\ sorted_distances = <<>>
    /\ pairs_left = {}
    /\ pair = <<>>
    /\ parent = <<>>
    /\ rank = <<>>
    /\ component_count = 0
    /\ call = [name |-> "none"]
    /\ merges = 0

day8Vars == <<ufVars, coordinates, n_connections, sorted_distances,
              pairs_left, pair>>

\* process_instructions before its loop.
InitDial ==
    /\ fn = "process_instructions"
    /\ pc = "read"
    /\ position = STARTING_POSITION
    /\ stops_on_zero = 0
    /\ passes_through_zero = 0
    /\ instruction = ""
    /\ amount = 0
    /\ times_hit_zero = 0
    /\ i = 0
    /\ result = 0
    /\ IdleDay8 /\ IdleMainIO /\ IdleBfs

\* A line is read: its first character the instruction, the rest the
\* amount; an instruction other than L and R raises ValueError.
DialRead ==
    /\ fn = "process_instructions"
    /\ pc = "read"
    /\ i < MaxRotations
    /\ i' = i + 1
    /\ instruction' \in {"L", "R", "X"}
    /\ amount' \in 0..MaxAmount
    /\ pc' = IF instruction' \in {"L", "R"} THEN "rotate" ELSE "ValueError"
    /\ UNCHANGED <<position, stops_on_zero, passes_through_zero,
                   times_hit_zero, fn, result, day8Vars, mainIO, bfsVars>>

\* The rest of the loop body: the rotation and the counters.  instruction
\* and amount are not read again before the next line overwrites them, and
\* are dropped here.
DialRotate ==
    /\ fn = "process_instructions"
    /\ pc = "rotate"
    /\ LET is_decrease     == instruction = "L"
           new_position    == apply_rotation(position, amount, is_decrease)
           hits            == count_zero_crossings(position, amount,
                                                   is_decrease)
           stopped_on_zero == new_position = 0
           times_passed_through ==
               hits - (IF stopped_on_zero THEN 1 ELSE 0)
       IN  /\ position' = new_position
           /\ times_hit_zero' = hits
           /\ passes_through_zero' =
                  passes_through_zero + times_passed_through
           /\ stops_on_zero' = IF stopped_on_zero THEN stops_on_zero + 1
                               ELSE stops_on_zero
    /\ instruction' = ""
    /\ amount' = 0
    /\ pc' = "read"
    /\ UNCHANGED <<fn, i, result, day8Vars, mainIO, bfsVars>>

\* The file has no more lines: return position, stops_on_zero,
\* passes_through_zero.
DialReturn ==
    /\ fn = "process_instructions"
    /\ pc = "read"
    /\ pc' = "returned"
    /\ result' = <<position, stops_on_zero, passes_through_zero>>
    /\ UNCHANGED <<position, stops_on_zero, passes_through_zero, instruction,
                   amount, times_hit_zero, fn, i, day8Vars, mainIO, bfsVars>>

NextDial ==
    \/ DialRead
    \/ DialRotate
    \/ DialReturn

SpecDial == InitDial /\ [][NextDial]_vars

(***************************************************************************)
(* Day 10: min_flips_bfs, an iteration of its while loop per step.  States *)
(* and operations are bitmasks, non-negative integers.                     *)
(***************************************************************************)

MaxMask == 7
MaxOps == 3

\* a ^ b of non-negative integers, bit by bit.
RECURSIVE Xor(_, _)
Xor(a, b) ==
    IF a = 0 THEN b
    ELSE IF b = 0 THEN a
    ELSE (((a % 2) + (b % 2)) % 2) + 2 * Xor(a \div 2, b \div 2)

\* The for loop returning num_ops, the operation that reaches the target not
\* counted.
RECURSIVE ForOperations_uncounted(_, _, _, _, _, _, _)
ForOperations_uncounted(tgt, ops, k, current_state, num_ops, q, seen) ==
    IF k > Len(ops)
    THEN [returns |-> FALSE, result |-> 0, queue |-> q, visited |-> seen]
    ELSE LET new_state == Xor(current_state, ops[k])
         IN  IF new_state = tgt
             THEN [returns |-> TRUE, result |-> num_ops,
                   queue |-> q, visited |-> seen]
             ELSE IF new_state \notin seen
             THEN ForOperations_uncounted(tgt, ops, k + 1, current_state,
                      num_ops, Append(q, <<new_state, num_ops + 1>>),
                      seen \cup {new_state})
             ELSE ForOperations_uncounted(tgt, ops, k + 1, current_state,
                      num_ops, q, seen)

\* for operation in operations, from the k-th operation on: the return when
\* new_state is the target, else new_state queued when it is not in visited.
RECURSIVE ForOperations(_, _, _, _, _, _, _)
ForOperations(tgt, ops, k, current_state, num_ops, q, seen) ==
    IF k > Len(ops)
    THEN [returns |-> FALSE, result |-> 0, queue |-> q, visited |-> seen]
    ELSE LET new_state == Xor(current_state, ops[k])
         IN  IF new_state = tgt
             THEN [returns |-> TRUE, result |-> num_ops + 1,
                   queue |-> q, visited |-> seen]
             ELSE IF new_state \notin seen
             THEN ForOperations(tgt, ops, k + 1, current_state, num_ops,
                                Append(q, <<new_state, num_ops + 1>>),
                                seen \cup {new_state})
             ELSE ForOperations(tgt, ops, k + 1, current_state, num_ops,
                                q, seen)

\* min_flips_bfs called with a target and a list of operations.
InitBfs ==
    /\ fn = "min_flips_bfs"
    /\ pc = "start"
    /\ target \in 0..MaxMask
    /\ operations \in SeqsUpTo(0..MaxMask, MaxOps)
    /\ queue = <<>>
    /\ visited = {}
    /\ result = 0
    /\ i = 0
    /\ IdleDay8 /\ IdleMainIO /\ IdleDial

\* if target == 0: return 0; else the queue and the visited set are set up.
BfsStart ==
    /\ fn = "min_flips_bfs"
    /\ pc = "start"
    /\ IF target = 0
       THEN /\ pc' = "returned"
            /\ result' = 0
            /\ UNCHANGED <<queue, visited>>
       ELSE /\ pc' = "loop"
            /\ queue' = <<<<0, 0>>>>
            /\ visited' = {0}
            /\ UNCHANGED result
    /\ UNCHANGED <<target, operations, fn, i, day8Vars, mainIO, dialVars>>

\* An iteration of the while loop: queue.popleft() and the for loop.
BfsIterate ==
    /\ fn = "min_flips_bfs"
    /\ pc = "loop"
    /\ queue # <<>>
    /\ \E r \in {ForOperations(target, operations, 1, Head(queue)[1],
                               Head(queue)[2], Tail(queue), visited)} :
          /\ queue' = r.queue
          /\ visited' = r.visited
          /\ pc' = IF r.returns THEN "returned" ELSE "loop"
          /\ result' = IF r.returns THEN r.result ELSE result
    /\ UNCHANGED <<target, operations, fn, i, day8Vars, mainIO, dialVars>>

\* The queue is empty: return -1.
BfsExhausted ==
    /\ fn = "min_flips_bfs"
    /\ pc = "loop"
    /\ queue = <<>>
    /\ pc' = "returned"
    /\ result' = -1
    /\ UNCHANGED <<target, operations, queue, visited, fn, i, day8Vars,
                   mainIO, dialVars>>

NextBfs ==
    \/ BfsStart
    \/ BfsIterate
    \/ BfsExhausted

SpecBfs == InitBfs /\ [][NextBfs]_vars

(***************************************************************************)
(* Properties of the UnionFind, checked under Spec.                        *)
(***************************************************************************)

\* The root of x's tree, by following parent pointers at most fuel times;
\* -1 when no self-parented index is reached.
RECURSIVE Walk(_, _, _)
Walk(p, x, fuel) ==
    IF p[x] = x THEN x
    ELSE IF fuel = 0 THEN -1
    ELSE Walk(p, p[x], fuel - 1)

Root(p, x) == Walk(p, x, Len0(p) - 1)

RECURSIVE SumSeq(_)
SumSeq(q) == IF q = <<>> THEN 0 ELSE Head(q) + SumSeq(Tail(q))

LastUnion == call.name = "union"

\* C1 (first half): in every state that a union(x, y) call has just
\* produced, find(x) followed by find(y) return the same representative.
C1_AfterUnionSameRoot ==
    LastUnion =>
        LET fx == find(parent, call.x)
            fy == find(fx.parent, call.y)
        IN  fx.root = fy.root

\* C1 (second half): a union(x, y) call that directly follows a union(x, y)
\* call with the same arguments returns False and leaves component_count
\* as it was.
C1_RepeatedUnionStep ==
    (call'.name = "union" /\ call'.repeated)
    => (call'.ret = FALSE /\ component_count' = component_count)

\* C1: after union(x, y) returns, find(x) = find(y), and an immediately
\* repeated union(x, y) returns False without changing component_count.
C1_UnionConnects ==
    [][C1_AfterUnionSameRoot' /\ C1_RepeatedUnionStep]_vars

\* C1 witness: a union(x, y) on two distinct indices has just been repeated
\* directly after a union(x, y) that merged them.
C1_Witness ==
    /\ LastUnion
    /\ call.repeated
    /\ call.x # call.y
    /\ call.ret = FALSE
    /\ merges = 1

\* C2: component_count equals the size minus the number of True-returning
\* unions; every True-returning union lowers it by exactly 1, and no call
\* ever raises it.
C2_CountStep ==
    /\ component_count' = Len0(parent') - merges'
    /\ component_count' <= component_count
    /\ (call'.name = "union" /\ call'.ret) => component_count' = component_count - 1
    /\ Len0(parent') = Len0(parent)

C2_ComponentCount == [][C2_CountStep]_vars

\* C2 witness: two unions have returned True, and the last call was a union
\* that returned False.
C2_Witness ==
    /\ merges = 2
    /\ component_count = Len0(parent) - 2
    /\ LastUnion
    /\ ~call.ret

\* C3: the parent mapping is a forest: every parent is a valid index and
\* following parent pointers from any index reaches a self-parented root in
\* fewer hops than there are indices; find returns that root for every index.
C3_Forest ==
    /\ \A x \in Indices : parent[x] \in Indices /\ Root(parent, x) # -1
    /\ \A x \in Indices : find(parent, x).root = Root(parent, x)

\* C3 witness: a tree of height 2 (an index whose parent is not a root) in a
\* state a find call produced.
C3_Witness ==
    /\ call.name = "find"
    /\ \E x \in Indices : parent[x] # x /\ parent[parent[x]] # parent[x]

\* C4: in every state, the sizes get_component_sizes returns sum to the
\* size of the structure, and so do the sizes a call has just returned.
C4_SizesSum ==
    /\ SumSeq(get_component_sizes(self).ret) = Len0(parent)
    /\ call.name = "get_component_sizes" => SumSeq(call.ret) = Len0(parent)

\* C4 witness: get_component_sizes has returned after merges, with one
\* component of size 3 and another component beside it.
C4_Witness ==
    /\ call.name = "get_component_sizes"
    /\ merges = 2
    /\ Len(call.ret) = 2
    /\ \E k \in 1..Len(call.ret) : call.ret[k] = 3

\* The roots of x's and y's trees before a union step, and whether the
\* step is a union that merged.
MergeStep == call'.name = "union" /\ call'.ret

PreRootX == Root(parent, call'.x)
PreRootY == Root(parent, call'.y)

\* lo becomes a child of hi, hi stays a root.
Attached(lo, hi) == parent'[lo] = hi /\ parent'[hi] = hi

\* C9: a merge of roots of different rank attaches the root of smaller rank
\* under the root of larger rank and changes no rank; a merge of roots of
\* equal rank attaches one of the two under the other and raises the rank of
\* the one kept by exactly one, every other rank unchanged.
C9_RankStep ==
    MergeStep =>
        /\ rank[PreRootX] < rank[PreRootY] =>
              Attached(PreRootX, PreRootY) /\ rank' = rank
        /\ rank[PreRootX] > rank[PreRootY] =>
              Attached(PreRootY, PreRootX) /\ rank' = rank
        /\ rank[PreRootX] = rank[PreRootY] =>
              \E keep \in {PreRootX, PreRootY} :
                 \E lose \in {PreRootX, PreRootY} \ {keep} :
                    /\ Attached(lose, keep)
                    /\ rank' = [rank EXCEPT ![keep] = rank[keep] + 1]

C9_UnionByRank == [][C9_RankStep]_vars

\* C9 witness: one merge of roots of different rank and one of equal rank
\* have happened: the last union took the "less" or "greater" branch, and a
\* root of rank 1 exists, which only an equal-rank merge produces.
C9_Witness ==
    /\ LastUnion
    /\ call.branch \in {"less", "greater"}
    /\ \E x \in Indices : rank[x] = 1

\* C10 as stated: a merge of roots of equal rank keeps the root of y's
\* tree, the root of x's tree becoming its child.
C10_TieStepKeepsY ==
    (MergeStep /\ rank[PreRootX] = rank[PreRootY]) => Attached(PreRootX, PreRootY)

C10_TieKeepsRootOfY == [][C10_TieStepKeepsY]_vars

\* C10 amended: a merge of roots of equal rank keeps the root of x's tree:
\* the root of y's tree becomes its child and the rank of x's root rises by
\* one.
C10_TieStepKeepsX ==
    (MergeStep /\ rank[PreRootX] = rank[PreRootY]) =>
        /\ Attached(PreRootY, PreRootX)
        /\ rank'[PreRootX] = rank[PreRootX] + 1

C10_TieKeepsRootOfX == [][C10_TieStepKeepsX]_vars

\* C10 witness: a union(x, y) has just merged two roots of equal rank, x
\* and y not being roots themselves.
C10_Witness ==
    /\ LastUnion
    /\ call.branch = "equal"
    /\ call.root_x # call.x
    /\ call.root_y # call.y
    /\ parent[call.root_y] = call.root_x

\* The indices on the path from x to the root of its tree, x and the root
\* included.
RECURSIVE PathNodes(_, _, _)
PathNodes(p, x, fuel) ==
    IF p[x] = x \/ fuel = 0 THEN {x}
    ELSE {x} \cup PathNodes(p, p[x], fuel - 1)

Path(p, x) == PathNodes(p, x, Len0(p))

FalseUnionStep == call'.name = "union" /\ ~call'.ret

\* C11 as stated: a union(x, y) call that returns False leaves parent, rank
\* and component_count exactly as they were before the call.
C11_FalseUnionStepFrame ==
    FalseUnionStep =>
        /\ parent' = parent
        /\ rank' = rank
        /\ component_count' = component_count

C11_FalseUnionNoChange == [][C11_FalseUnionStepFrame]_vars

\* C11 amended: a union(x, y) call that returns False leaves rank and
\* component_count exactly as they were and every index in the tree it was
\* in (same root); the parent mapping changes only by the path compression
\* of the two finds: the indices on the paths from x and from y to their
\* root are re-pointed directly at that root, every other parent is kept.
C11_FalseUnionStepCompresses ==
    FalseUnionStep =>
        /\ rank' = rank
        /\ component_count' = component_count
        /\ \A k \in Indices : Root(parent', k) = Root(parent, k)
        /\ \A k \in Indices :
              parent'[k] = IF k \in Path(parent, call'.x) \cup Path(parent, call'.y)
                           THEN Root(parent, k)
                           ELSE parent[k]

C11_FalseUnionOnlyCompresses == [][C11_FalseUnionStepCompresses]_vars

\* C11 witness: a union(x, y) of two distinct indices, neither of them the
\* root, has returned False in a tree whose root has rank 2, after which
\* both point directly at the root.
C11_Witness ==
    /\ LastUnion
    /\ ~call.ret
    /\ ~call.repeated
    /\ call.x # call.y
    /\ call.root_x \notin {call.x, call.y}
    /\ rank[call.root_x] = 2
    /\ parent[call.x] = call.root_x
    /\ parent[call.y] = call.root_x

\* C12: find(x) on a valid index returns the root of x's tree, and after
\* the call x and every index that lay on the path from x to that root has
\* the root as its direct parent.
C12_FindStep ==
    call'.name = "find" =>
        /\ call'.ret = Root(parent, call'.x)
        /\ parent'[call'.ret] = call'.ret
        /\ \A k \in Path(parent, call'.x) : parent'[k] = call'.ret

C12_FindReturnsRootAndCompresses == [][C12_FindStep]_vars

\* C12 witness: find(x) has returned the root of a tree whose root has rank
\* 2, for an x of rank 0 that is not the root and now points directly at it.
C12_Witness ==
    /\ call.name = "find"
    /\ call.ret # call.x
    /\ rank[call.ret] = 2
    /\ rank[call.x] = 0
    /\ parent[call.x] = call.ret

\* C13: a freshly constructed UnionFind(size), size >= 0, has
\* component_count = size, size ranks all 0, and find(i) = i for every i in
\* [0, size): size singleton components.
C13_FreshStructure ==
    call.name = "__init__" =>
        /\ component_count = call.size
        /\ DOMAIN parent = 0..(call.size - 1)
        /\ DOMAIN rank = 0..(call.size - 1)
        /\ \A k \in Indices : rank[k] = 0
        /\ \A k \in Indices : find(parent, k).root = k
        /\ get_component_sizes(self).ret = [k \in 1..call.size |-> 1]

\* C13 witness: UnionFind(3) has just been constructed.
C13_Witness ==
    /\ call.name = "__init__"
    /\ call.size = 3
    /\ component_count = 3

\* The roots of the forest, and the indices in the tree of root r.
Roots == {Root(parent, k) : k \in Indices}
Members(r) == {k \in Indices : Root(parent, k) = r}

\* sizes holds exactly one entry per distinct root, each entry the number of
\* indices whose root it is: as many entries as roots, and every value
\* occurs in sizes as often as there are roots with that many indices.
OnePerRoot(sizes) ==
    /\ Len(sizes) = Cardinality(Roots)
    /\ \A v \in 0..Len0(parent) :
          Cardinality({k \in 1..Len(sizes) : sizes[k] = v})
              = Cardinality({r \in Roots : Cardinality(Members(r)) = v})

\* C14: in every reachable state get_component_sizes returns exactly one
\* entry per distinct root, each the number of indices whose representative
\* is that root, and the number of entries equals component_count.
C14_SizesPerRoot ==
    /\ OnePerRoot(get_component_sizes(self).ret)
    /\ Len(get_component_sizes(self).ret) = component_count
    /\ call.name = "get_component_sizes" =>
          OnePerRoot(call.ret) /\ Len(call.ret) = component_count

\* C14 witness: get_component_sizes has returned three entries, one of them
\* 2, with component_count = 3.
C14_Witness ==
    /\ call.name = "get_component_sizes"
    /\ Len(call.ret) = 3
    /\ component_count = 3
    /\ \E k \in 1..Len(call.ret) : call.ret[k] = 2

\* C20 as stated, checked under SpecMisuse: find(x) on an x outside
\* [0, size), negative x included, fails with an out-of-range error: it
\* returns no representative and leaves the parent mapping unchanged.
C20_OutsideFindStep ==
    (call'.name = "find" /\ call'.x \notin Indices) =>
        /\ call'.raises = "IndexError"
        /\ parent' = parent

C20_OutOfRangeFails == [][C20_OutsideFindStep]_vars

\* Every index that is not a root has a parent of strictly greater rank.
RankGrowsUpward(p, rk) ==
    \A k \in DOMAIN p : p[k] # k => rk[p[k]] > rk[k]

\* C26: in every state reachable by union and find calls (and
\* get_component_sizes, which only calls find), each non-root index has a
\* parent of strictly greater rank, and no call lowers a rank.
C26_RankOrder ==
    /\ RankGrowsUpward(parent, rank)
    /\ [][/\ RankGrowsUpward(parent', rank')
          /\ \A k \in Indices : rank'[k] >= rank[k]]_vars

\* C26 witness: in a state a find call produced, a tree holds an index two
\* hops from its root, the ranks along the path being 0, 1 and 2.
C26_Witness ==
    /\ call.name = "find"
    /\ \E x \in Indices :
          /\ parent[x] # x
          /\ parent[parent[x]] # parent[x]
          /\ rank[x] = 0
          /\ rank[parent[x]] = 1
          /\ rank[parent[parent[x]]] = 2

\* C27: find(x) on a valid index changes nothing but parent pointers inside
\* x's own tree: rank and component_count are unchanged, the root of every
\* index is the same after the call as before, and any two indices have the
\* same root after the call iff they had before.
C27_FindFrameStep ==
    call'.name = "find" =>
        /\ rank' = rank
        /\ component_count' = component_count
        /\ \A k \in Indices :
              Root(parent, k) # Root(parent, call'.x) => parent'[k] = parent[k]
        /\ \A k \in Indices : Root(parent', k) = Root(parent, k)
        /\ \A a \in Indices : \A b \in Indices :
              (Root(parent', a) = Root(parent', b))
                  <=> (Root(parent, a) = Root(parent, b))
        /\ get_component_sizes([parent |-> parent', rank |-> rank',
                                component_count |-> component_count']).ret
              = get_component_sizes(self).ret

C27_FindFrame == [][C27_FindFrameStep]_vars

\* C27 witness: find(x) has returned for an x that is not the root of its
\* tree of three indices, a second component standing beside it.
C27_Witness ==
    /\ call.name = "find"
    /\ call.ret # call.x
    /\ component_count = 2
    /\ merges = 2
    /\ Cardinality({k \in Indices : Root(parent, k) = call.ret}) = 3

\* C21 as stated, checked under SpecMisuse: constructing UnionFind with a
\* negative size fails with an error and yields no structure.
C21_NegativeSizeFails ==
    (call.name = "__init__" /\ call.size < 0) => call.raises # "none"

(***************************************************************************)
(* Properties of main, checked under SpecMain.                             *)
(***************************************************************************)

\* The number of comma-separated fields of a line.
FieldCount(line) == Cardinality({k \in 1..Len(line) : line[k] = ","}) + 1

\* The exceptions parse_coordinates can leave main with.
InputErrors == {"ValueError", "IndexError"}

\* C22: an input line whose number of comma-separated fields is not exactly
\* three, fewer or more, is rejected as a fatal input error, and no point is
\* produced from it: when the file has such a line (blank lines apart),
\* parsing ends main with an exception and leaves no point list.
C22_ParseStep ==
    (/\ fn = "main"
     /\ pc = "parse"
     /\ \E k \in 1..Len(input_lines) :
            /\ strip(input_lines[k]) # <<>>
            /\ FieldCount(input_lines[k]) # 3)
        => (pc' \in InputErrors /\ coordinates' = <<>>)

C22_FieldCountChecked == [][C22_ParseStep]_vars

\* The result lines printed so far.
ResultLines == SelectSeq(stdout, LAMBDA l : l[1] \in {"Part 1", "Part 2"})

\* C23: a result line is printed only after parsing and both solvers have
\* completed successfully, the "Part 1" line before the "Part 2" line, and
\* when parsing or a solver fails no result line is printed at all: result
\* lines in stdout are the two lines, in this order and last, of a finished
\* run whose file parses and whose solvers return the values printed; a run
\* ended by an exception has printed none.
C23_ResultsAfterBothSolvers ==
    /\ ResultLines # <<>> =>
           /\ pc = "done"
           /\ ResultLines = <<<<"Part 1", part1_result>>,
                              <<"Part 2", part2_result>>>>
           /\ SubSeq(stdout, Len(stdout) - 1, Len(stdout)) = ResultLines
           /\ parse_coordinates(input_lines).raises = "none"
           /\ LET r == solve_part1(coordinates, sorted_distances,
                                   n_connections, debug)
              IN  r.pc = "returned" /\ r.result = part1_result
           /\ LET r == solve_part2(coordinates, sorted_distances, debug)
              IN  r.pc = "returned" /\ r.result = part2_result
    /\ pc = "done" => Len(ResultLines) = 2
    /\ pc \in {"ValueError", "IndexError"} => ResultLines = <<>>

\* A run with --debug has finished: debug prints, then the two result lines.
C23_Witness ==
    /\ pc = "done"
    /\ debug
    /\ Len(stdout) > 2
    /\ stdout[Len(stdout) - 1][1] = "Part 1"
    /\ stdout[Len(stdout)][1] = "Part 2"

\* C24: for every point list, sorted pair list and n_connections,
\* solve_part1 and solve_part2 produce the same outcome with debug enabled as
\* with debug disabled: once a solver has been called directly, the other
\* setting of debug on the same arguments ends the same way, returning the
\* same value or failing as well.  Checked under SpecDirect.
C24_DebugSameOutcome ==
    /\ (fn = "solve_part1" /\ pc # "call") =>
           LET other == solve_part1(coordinates, sorted_distances,
                                    n_connections, ~debug)
           IN  /\ (other.pc = "returned") = (pc = "returned")
               /\ pc = "returned" => other.result = result
    /\ (fn = "solve_part2" /\ pc # "call") =>
           LET other == solve_part2(coordinates, sorted_distances, ~debug)
           IN  /\ (other.pc = "returned") = (pc = "returned")
               /\ pc = "returned" => other.result = result

\* The first three points of the two-cluster file are one cluster, the last
\* two the other; a pair crosses when its points lie in different clusters.
Crosses(p) == (p[2] \in {0, 1, 2}) # (p[3] \in {0, 1, 2})

\* C25: for the five points (0,0,0), (1,0,0), (2,0,0), (10,10,10),
\* (11,10,10): the three pairs a step apart precede every cross-cluster pair
\* in the sorted list; solve_part1 with the count chosen for five points,
\* n_connections = 2, yields component sizes summing to 5; solve_part2
\* returns at the first cross-cluster pair of the list, the one whose union
\* merges the two clusters, with the product of its points' x-coordinates.
\* No step of the run fails.
C25_TwoClusters ==
    input_lines = ScenarioFile =>
        /\ pc \notin {"ValueError", "IndexError"}
        /\ pc # "parse" =>
               /\ coordinates = [k \in 0..4 |->
                                    <<<<0, 0, 0>>, <<1, 0, 0>>, <<2, 0, 0>>,
                                      <<10, 10, 10>>, <<11, 10, 10>>>>[k + 1]]
               /\ n_connections = 2
        /\ pc \in {"call", "part2", "print", "done"} =>
               /\ Cardinality({k \in 1..Len(sorted_distances) :
                                   sorted_distances[k][1] = 1}) = 3
               /\ \A a, b \in 1..Len(sorted_distances) :
                      (/\ sorted_distances[a][1] = 1
                       /\ Crosses(sorted_distances[b])) => a < b
        /\ pc \in {"part2", "print", "done"} =>
               LET r == solve_part1(coordinates, sorted_distances, 2, debug)
               IN  /\ r.pc = "returned"
                   /\ SumSeq(r.sizes) = 5
                   /\ part1_result = r.result
        /\ pc \in {"print", "done"} =>
               \E k \in 1..Len(sorted_distances) :
                   LET p == sorted_distances[k]
                   IN  /\ Crosses(p)
                       /\ \A j \in 1..(k - 1) : ~Crosses(sorted_distances[j])
                       /\ solve_part2(coordinates, sorted_distances,
                                      debug).pair = p
                       /\ part2_result =
                              coordinates[p[2]][1] * coordinates[p[3]][1]

\* The run on the two clusters has finished with 3 * 1 * 1 and 2 * 10.
C25_Witness ==
    /\ input_lines = ScenarioFile
    /\ pc = "done"
    /\ part1_result = 3
    /\ part2_result = 20

\* C28: with the connection count chosen by determine_part1_connections,
\* solve_part1 returns a value for every input of n >= 5 points other than
\* n = 1000, the count never above the number of pairs and at least three
\* components left after the unions; for n < 5 it fails.  When main is about
\* to call solve_part1 the call ends so, and once it has returned there were
\* five points or more.  For the size at hand and every size above it up to
\* MaxCoords, 1000 apart, the count is at most the n(n-1)/2 pairs and, a
\* union lowering the number of components by one at most, leaves three.
C28_Part1Returns ==
    /\ (fn = "main" /\ pc = "call") =>
           LET n == Len0(coordinates)
               r == solve_part1(coordinates, sorted_distances, n_connections,
                                debug)
           IN  /\ (n >= 5 /\ n # 1000) =>
                      /\ r.pc = "returned"
                      /\ n_connections <= Len(sorted_distances)
                      /\ Len(r.sizes) >= 3
                      /\ \A m \in n..MaxCoords :
                             m # 1000 =>
                                 LET c == determine_part1_connections(m)
                                 IN  2 * c <= m * (m - 1) /\ m - c >= 3
               /\ n < 5 => r.pc = "IndexError"
    /\ (fn = "main" /\ pc \in {"part2", "print", "done"}) =>
           Len0(coordinates) >= 5

\* solve_part1 has returned 2 * 2 * 1 for five points and two connections.
C28_Witness ==
    /\ fn = "main"
    /\ pc = "part2"
    /\ Len0(coordinates) = 5
    /\ n_connections = 2
    /\ part1_result = 4

(***************************************************************************)
(* Properties of day 1, checked under SpecDial.                            *)
(***************************************************************************)

\* The dial a click on from p.
Click(p, is_decrease) ==
    IF is_decrease
    THEN IF p = 0 THEN DIAL_SIZE - 1 ELSE p - 1
    ELSE IF p = DIAL_SIZE - 1 THEN 0 ELSE p + 1

\* Where the dial reads after k clicks from p.  That these are the readings
\* click by click (none from p, each a click on from the one before) is part
\* of what C29 checks.
After(p, k, is_decrease) ==
    IF is_decrease THEN (p - k) % DIAL_SIZE ELSE (p + k) % DIAL_SIZE

\* C29: for every start position in 0..99, every amount >= 0 and both
\* directions, count_zero_crossings returns the number of single clicks after
\* which the dial reads 0 when the rotation is made a click at a time, the
\* start not counted, in keeping with apply_rotation's final position: a
\* rotation step ends where the clicks end, with times_hit_zero the number of
\* clicks after which the dial read 0, the last click among them when the
\* step ends at 0.
C29_RotateStep ==
    (fn = "process_instructions" /\ pc = "rotate") =>
        LET is_decrease == instruction = "L"
            zeros == Cardinality({k \in 1..amount :
                                     After(position, k, is_decrease) = 0})
        IN  /\ position \in 0..(DIAL_SIZE - 1)
            /\ After(position, 0, is_decrease) = position
            /\ \A k \in 1..amount :
                   After(position, k, is_decrease) =
                       Click(After(position, k - 1, is_decrease), is_decrease)
            /\ position' = After(position, amount, is_decrease)
            /\ times_hit_zero' = zeros
            /\ (amount >= 1 /\ position' = 0) => times_hit_zero' >= 1

C29_CountsClicksAtZero == [][C29_RotateStep]_vars

\* Two rotations have ended at 0, the second a full turn from 0.
C29_Witness ==
    /\ fn = "process_instructions"
    /\ pc = "read"
    /\ position = 0
    /\ stops_on_zero = 2
    /\ passes_through_zero = 0
    /\ times_hit_zero = 1

(***************************************************************************)
(* Properties of day 10, checked under SpecBfs.                            *)
(***************************************************************************)

\* The least number of applications, k or more, that produce tgt, S being
\* the set of the states that k applications of operations in ops produce
\* from 0; -1 when there is none.  States are at most 2 * MaxMask, so a
\* shortest sequence, which passes no state twice, has at most that many
\* applications.
RECURSIVE Fewest(_, _, _, _)
Fewest(ops, tgt, S, k) ==
    IF tgt \in S THEN k
    ELSE IF k >= 2 * MaxMask THEN -1
    ELSE Fewest(ops, tgt, {Xor(s, ops[j]) : s \in S, j \in 1..Len(ops)},
                k + 1)

\* C30: min_flips_bfs returns the smallest number of applications of
\* operations, XORs one after another from state 0, that produce target; 0
\* when target is 0; -1 exactly when no sequence of operations produces
\* target: the value returned is the least level that holds the target, -1
\* when no level does.
C30_FewestApplications ==
    (fn = "min_flips_bfs" /\ pc = "returned") =>
        /\ target = 0 => result = 0
        /\ result = Fewest(operations, target, {0}, 0)

\* Three applications were needed.
C30_Witness ==
    /\ fn = "min_flips_bfs"
    /\ pc = "returned"
    /\ result = 3
    /\ Len(operations) = 3

(***************************************************************************)
(* Properties of the solvers, checked under SpecSolve and SpecPart2Fair.   *)
(***************************************************************************)

Nodes == DOMAIN coordinates

AllPairs == Range(sorted_distances)

\* The elements of the list the loop has taken.
Consumed == AllPairs \ pairs_left

\* The indices connected to one of S by the pairs in E.
RECURSIVE Reach(_, _)
Reach(S, E) ==
    LET T == S \cup {e[3] : e \in {f \in E : f[2] \in S}}
               \cup {e[2] : e \in {f \in E : f[3] \in S}}
    IN  IF T = S THEN S ELSE Reach(T, E)

\* The partition of the indices that connecting the pairs in E makes.
Partition(E) == {Reach({x}, E) : x \in Nodes}

\* v is the product of the sizes of three largest blocks of partition P.
TopThreeProduct(P, v) ==
    \E A \in P : \E B \in P \ {A} : \E C \in P \ {A, B} :
        /\ \A D \in P \ {A, B, C} :
              /\ Cardinality(D) <= Cardinality(A)
              /\ Cardinality(D) <= Cardinality(B)
              /\ Cardinality(D) <= Cardinality(C)
        /\ v = Cardinality(A) * Cardinality(B) * Cardinality(C)

XProduct(p) == coordinates[p[2]][1] * coordinates[p[3]][1]

\* The list in the order main hands it to the solvers.
StableList == sorted_distances

Running2 == fn = "solve_part2"
Running1 == fn = "solve_part1"

\* C5, per step of solve_part2: an iteration takes a pair of least distance
\* among those left and not nearer than the pair before it; it returns
\* exactly when its union returned True and left component_count = 1; the
\* value returned is the product of the x-coordinates of that pair's two
\* points; and once it has returned nothing more is processed.
C5_Part2Step ==
    /\ (Running2 /\ i' = i + 1) =>
         /\ \A q \in pairs_left' : pair'[1] <= q[1]
         /\ pair # <<>> => pair[1] <= pair'[1]
         /\ call'.x = pair'[2] /\ call'.y = pair'[3]
         /\ (pc' = "returned") <=> (call'.ret /\ component_count' = 1)
         /\ pc' = "returned" => result' = XProduct(pair')
    /\ (Running2 /\ pc = "returned") => UNCHANGED vars
    /\ (Running2 /\ pc' = "returned") =>
         /\ Cardinality(Partition(Consumed')) = 1
         /\ Cardinality(Partition(Consumed' \ {pair'})) = 2

\* C5: solve_part2 returns at the first pair, in list order, whose union
\* returns True and leaves a single component, with the product of that
\* pair's x-coordinates, and processes no later pair.
C5_ReturnsAtUnifyingPair == [][C5_Part2Step]_vars

\* C5 witness: solve_part2 has returned after a union that merged nothing
\* and with pairs still unprocessed.
C5_Witness ==
    /\ Running2
    /\ pc = "returned"
    /\ merges < i
    /\ pairs_left # {}
    /\ result = XProduct(pair)
    /\ result > 0

\* C6: on the complete pair list of two or more points, in any ascending
\* order, solve_part2 never raises the exhaustion error and eventually
\* returns with a single component.
C6_Part2Returns ==
    /\ [](Running2 /\ Len0(coordinates) >= 2 => pc # "ValueError")
    /\ (Running2 /\ Len0(coordinates) >= 2)
          ~> (pc = "returned" /\ component_count = 1)

\* C6 witness: solve_part2 has returned on four points with a single
\* component, after three merging unions and one that merged nothing.
C6_Witness ==
    /\ Running2
    /\ Len0(coordinates) = 4
    /\ pc = "returned"
    /\ component_count = 1
    /\ merges = 3
    /\ i = 4

\* C7: solve_part1 never takes more than n_connections pairs, each taken
\* pair uses up one of them whether or not its union merged, and when it
\* returns it has applied union to exactly the first n_connections pairs of
\* the list and the value is the product of the three largest component
\* sizes of the partition those pairs make.
C7_Part1Prefix ==
    Running1 =>
        /\ i <= n_connections
        /\ Cardinality(Consumed) = i
        /\ merges <= i
        /\ \A c \in Consumed : \A q \in pairs_left : c[1] <= q[1]
        /\ Cardinality(Partition(Consumed)) = Len0(coordinates) - merges
        /\ pc = "returned" =>
              /\ i = n_connections
              /\ TopThreeProduct(Partition(Consumed), result)

\* C7 witness: solve_part1 has returned after three unions of which one
\* merged nothing, leaving sizes 3, 1, 1.
C7_Witness ==
    /\ Running1
    /\ pc = "returned"
    /\ n_connections = 3
    /\ merges = 2
    /\ result = 3

\* How often e occurs in the list q, and where it stands in it.
Count(q, e) == Cardinality({k \in 1..Len(q) : q[k] = e})
Pos(q, e) == CHOOSE k \in 1..Len(q) : q[k] = e

\* C15: for n points calculate_all_distances returns exactly C(n,2)
\* triples, one for each pair of indices i < j and none repeated, in the
\* order of i ascending and, within each i, j ascending.
C15_AllPairsInOrder ==
    (fn = "main" /\ pc = "sort") =>
        LET d == sorted_distances
            n == Len0(coordinates)
        IN  /\ 2 * Len(d) = n * (n - 1)
            /\ \A k \in 1..Len(d) :
                  d[k][2] \in Nodes /\ d[k][3] \in Nodes /\ d[k][2] < d[k][3]
            /\ \A a \in Nodes : \A b \in Nodes :
                  a < b =>
                    Cardinality({k \in 1..Len(d) : d[k][2] = a /\ d[k][3] = b}) = 1
            /\ \A k \in 1..(Len(d) - 1) :
                  \/ d[k][2] < d[k + 1][2]
                  \/ d[k][2] = d[k + 1][2] /\ d[k][3] < d[k + 1][3]

\* C15 witness: the ten triples of five points have been generated, the
\* fifth of them for the pair (1, 2), and they are not in ascending order of
\* distance.
C15_Witness ==
    /\ fn = "main"
    /\ pc = "sort"
    /\ Len(sorted_distances) = 10
    /\ sorted_distances[5][2] = 1
    /\ sorted_distances[5][3] = 2
    /\ \E k \in 1..9 : sorted_distances[k][1] > sorted_distances[k + 1][1]

\* C16, per step: the sort leaves a permutation of the generated list, in
\* non-decreasing distance, pairs of equal distance in the order in which
\* they were generated; the call of a solver and the solver itself leave
\* the list as sorted, and the solver starts on exactly its elements.
C16_SortStep ==
    /\ (fn = "main" /\ pc = "sort" /\ pc' = "call") =>
          LET gen == sorted_distances
              srt == sorted_distances'
          IN  /\ Len(srt) = Len(gen)
              /\ \A e \in Range(gen) \cup Range(srt) : Count(srt, e) = Count(gen, e)
              /\ \A k \in 1..(Len(srt) - 1) : srt[k][1] <= srt[k + 1][1]
              /\ \A a \in 1..Len(srt) : \A b \in 1..Len(srt) :
                    (a < b /\ srt[a][1] = srt[b][1]) =>
                        Pos(gen, srt[a]) < Pos(gen, srt[b])
    /\ (pc \notin {"distances", "sort"}) => sorted_distances' = sorted_distances
    /\ (pc = "call" /\ pc' = "loop") => pairs_left' = Range(sorted_distances)

C16_StableSortedList == [][C16_SortStep]_vars

\* C16 witness: main is about to call a solver with the sorted list of four
\* points, which holds pairs of equal distance and is not in the order in
\* which it was generated.
C16_Witness ==
    /\ fn = "main"
    /\ pc = "call"
    /\ Len(sorted_distances) = 6
    /\ sorted_distances # calculate_all_distances(coordinates)
    /\ \E k \in 1..5 : sorted_distances[k][1] = sorted_distances[k + 1][1]

\* C17 as stated: on a single point (empty pair list) solve_part2 treats
\* the set as already unified: it ends without raising, and no element of
\* the pair list is taken.
C17_SinglePointUnified ==
    (Running2 /\ Len0(coordinates) = 1) =>
        /\ pc \in {"loop", "returned"}
        /\ i = 0
        /\ pair = <<>>

\* C18: when fewer than three components remain after the prefix of
\* unions, solve_part1 ends with an error and returns no product.
C18_FewComponentsFail ==
    (Running1 /\ pc # "loop" /\ Cardinality(Partition(Consumed)) < 3) =>
        /\ pc = "IndexError"
        /\ result = 0

\* C18 witness: solve_part1 has made its three unions, get_component_sizes
\* has returned two sizes, and the function has raised.
C18_Witness ==
    /\ Running1
    /\ pc = "IndexError"
    /\ n_connections = 3
    /\ i = 3
    /\ call.name = "get_component_sizes"
    /\ Len(call.ret) = 2
    /\ component_count = 2

\* C19, per step: when solve_part2 has taken the whole list without
\* returning, its next step raises ValueError and sets no value; the error
\* is final; and the function returns only at a union that merged and left
\* a single component, never on the exhausted list.
C19_ExhaustedStep ==
    /\ (Running2 /\ pc = "loop" /\ pairs_left = {}) =>
          (pc' = "ValueError" /\ result' = result /\ result' = 0)
    /\ (Running2 /\ pc = "ValueError") => UNCHANGED vars
    /\ (Running2 /\ pc' = "returned" /\ pc = "loop") =>
          (pairs_left # {} /\ call'.ret /\ component_count' = 1)

C19_ExhaustionRaises == [][C19_ExhaustedStep]_vars

\* C19 witness: solve_part2 has raised ValueError on a list it has run
\* through with no union that merged.
C19_Witness ==
    /\ Running2
    /\ pc = "ValueError"
    /\ pairs_left = {}
    /\ merges = 0
    /\ result = 0

\* Whether the pairs taken so far are a whole number of groups of equal
\* distance: no pair left is at the distance of a pair taken.
PrefixWhole == \A c \in Consumed : \A q \in pairs_left : c[1] < q[1]

\* C8 as stated: whatever the order of pairs of equal distance, solve_part1
\* and solve_part2 end as they do on the list in main's order, with the same
\* value.
C8_TieOrderInvariant ==
    /\ (Running1 /\ pc # "loop") =>
          LET ref == solve_part1(coordinates, StableList, n_connections, debug)
          IN  ref.pc = pc /\ ref.result = result
    /\ (Running2 /\ pc # "loop") =>
          LET ref == solve_part2(coordinates, StableList, debug)
          IN  ref.pc = pc /\ ref.result = result

\* C8 amended: whatever the order of pairs of equal distance, solve_part2
\* ends the same way (returning or raising) as on the list in main's order
\* and, when it returns, returns at a pair of the same distance; solve_part1
\* ends the same way with the same value whenever its first n_connections
\* pairs are a whole number of groups of equal distance.
C8_TieOrderAmended ==
    /\ (Running1 /\ pc # "loop" /\ PrefixWhole) =>
          LET ref == solve_part1(coordinates, StableList, n_connections, debug)
          IN  ref.pc = pc /\ ref.result = result
    /\ (Running2 /\ pc # "loop") =>
          LET ref == solve_part2(coordinates, StableList, debug)
          IN  /\ ref.pc = pc
              /\ pc = "returned" => ref.pair[1] = pair[1]

\* C8 witness: solve_part2 has returned at a pair other than the one it
\* returns at on the list in main's order, with another value.
C8_Witness ==
    /\ Running2
    /\ pc = "returned"
    /\ solve_part2(coordinates, StableList, debug).pair # pair
    /\ solve_part2(coordinates, StableList, debug).result # result

====
